---- MODULE Spec2Model ----
(***************************************************************************)
(* Model of vite's ModuleRunner (packages/vite/src/module-runner/runner.ts) *)
(* as a state machine: the module record store, the two indices, and the   *)
(* asynchronous import chains interleaving at their await points.          *)
(*                                                                         *)
(* Strings are sequences of tokens ("/root" "/a.js" "?" "v"), so that the  *)
(* url rewriting the runner does (root stripping, /@id/ wrapping, query    *)
(* extraction) is computed, not assumed.                                   *)
(*                                                                         *)
(* A task is one asynchronous chain: a root import() call, or one          *)
(* invocation of directRequest (an execution, whose promise is stored on   *)
(* the record).  Each action is the synchronous code between two awaits.   *)
(***************************************************************************)
EXTENDS Integers, Sequences, FiniteSets, TLC

\* ------------------------------------------------------------------ bounds
\* import() calls of one behaviour, with and without the environment's
\* perturbations (clearCache, destroy, answers flagged invalidate)
MaxRoots == 2
MaxCoreRoots == 3
\* import() calls of a behaviour that follows one import chain
MaxChainRoots == 1
\* clearCache() calls plus answers flagged invalidate of one behaviour
MaxEnv == 1

\* ------------------------------------------------------------ string model
RootTok == "/root"
SlashToks == {"/root", "/a", "/a.js", "/b.js", "/c.js", "/gone.js", "/@id/"}
DotToks == {"./"}

Range(s) == {s[i] : i \in 1..Len(s)}

\* utils.normalizeAbsoluteUrl(url, root): drop a file:// prefix, then strip the
\* root directory keeping the leading slash
normalizeAbsoluteUrl(url) ==
  LET u == IF Len(url) > 0 /\ url[1] = "file://" THEN Tail(url) ELSE url
  IN  IF Len(u) > 1 /\ u[1] = RootTok THEN Tail(u) ELSE u

\* shared/utils wrapId / unwrapId: the reserved /@id/ prefix
wrapId(url) ==
  IF Len(url) > 0 /\ url[1] = "/@id/" THEN url ELSE <<"/@id/">> \o url

unwrapId(url) ==
  IF Len(url) > 0 /\ url[1] = "/@id/" THEN Tail(url) ELSE url

normalizeEntryUrl(url) ==
  IF Len(url) > 0 /\ url[1] \in DotToks
  THEN url
  ELSE LET u == normalizeAbsoluteUrl(url)
       IN  IF Len(u) > 0 /\ u[1] \in SlashToks THEN u ELSE wrapId(u)

\* position of the first "?" token at or after position i (0 when there is none)
RECURSIVE QPos(_, _)
QPos(url, i) ==
  IF i > Len(url) THEN 0
  ELSE IF url[i] = "?" THEN i ELSE QPos(url, i + 1)

\* url.split('?')[0] and url.split('?')[1]
PathOf(url) ==
  LET q == QPos(url, 1) IN IF q = 0 THEN url ELSE SubSeq(url, 1, q - 1)

IdQuery(url) ==
  LET q == QPos(url, 1)
  IN  IF q = 0 THEN <<>>
      ELSE LET q2 == QPos(url, q + 1)
           IN  SubSeq(url, q + 1, IF q2 = 0 THEN Len(url) ELSE q2 - 1)

\* const query = idQuery ? `?${idQuery}` : ''
QueryOf(url) == IF IdQuery(url) = <<>> THEN <<>> ELSE <<"?">> \o IdQuery(url)

\* ModuleCacheMap.normalize: a file id inside the root becomes root-relative
normalize(fileId) ==
  IF Len(fileId) > 1 /\ fileId[1] = RootTok THEN Tail(fileId) ELSE fileId

\* -------------------------------------------------------------- transport
\* What the transport resolves a url's path to: the module (its code), its
\* file location, and how it is delivered.
NoFile == <<>>
Resolve(url) ==
  LET p == PathOf(url) IN
  CASE p \in {<<"/a.js">>, <<"/a">>, <<"./", "a.js">>} ->
         [name |-> "a", kind |-> "inline", file |-> <<"/root", "/a.js">>, code |-> TRUE]
    [] p = <<"/b.js">> ->
         [name |-> "b", kind |-> "inline", file |-> <<"/root", "/b.js">>, code |-> TRUE]
    [] p = <<"/c.js">> ->
         [name |-> "c", kind |-> "inline", file |-> <<"/root", "/c.js">>, code |-> TRUE]
    [] p = <<"/gone.js">> ->
         [name |-> "gone", kind |-> "inline", file |-> <<"/root", "/gone.js">>, code |-> FALSE]
    [] p \in {<<"/@id/", "virt">>, <<"virt">>} ->
         [name |-> "virt", kind |-> "inline", file |-> NoFile, code |-> TRUE]
    [] OTHER ->
         [name |-> "pkg", kind |-> "ext", file |-> NoFile, code |-> FALSE]

\* What a module's code imports, in order (the evaluator runs the imports of a
\* module one after the other), which urls the application imports, and which
\* modules' evaluation throws: the environment, fixed for one behaviour.
UA == <<"/a.js">>
UB == <<"/b.js">>
UC == <<"/c.js">>
NoDeps == [n \in {"a", "b", "c", "virt", "pkg", "gone", "data"} |-> <<>>]
\* A imports B, B imports A
WCycle2 ==
  [deps |-> [NoDeps EXCEPT !["a"] = <<UB>>, !["b"] = <<UA>>],
   roots |-> {UA, UB}, throws |-> {}]
\* A imports B, B imports C, C imports A
WCycle3 ==
  [deps |-> [NoDeps EXCEPT !["a"] = <<UB>>, !["b"] = <<UC>>, !["c"] = <<UA>>],
   roots |-> {UA, UB, UC}, throws |-> {}]
\* A imports B and then C, B imports A
WTail ==
  [deps |-> [NoDeps EXCEPT !["a"] = <<UB, UC>>, !["b"] = <<UA>>],
   roots |-> {UA, UC}, throws |-> {}]
\* one file under several spellings of its url
WSpell ==
  [deps |-> NoDeps,
   roots |-> {UA, <<"/a">>, <<"/a.js", "?", "v">>, <<"/root", "/a.js">>},
   throws |-> {}]
\* a virtual module, an externalized package and a data: url
WVirt ==
  [deps |-> [NoDeps EXCEPT !["a"] = << <<"virt">>, <<"pkg">> >>],
   roots |-> {UA, <<"virt">>, <<"/@id/", "virt">>, <<"pkg">>, <<"data:", "x">>},
   throws |-> {}]
\* a module without code and a module whose evaluation throws
WFail ==
  [deps |-> [NoDeps EXCEPT !["a"] = << <<"/gone.js">> >>, !["b"] = <<UC>>],
   roots |-> {UA, UB, <<"/gone.js">>}, throws |-> {"c"}]
\* A imports B and then throws, B imports A
WCycleThrows ==
  [deps |-> [NoDeps EXCEPT !["a"] = <<UB>>, !["b"] = <<UA>>],
   roots |-> {UA, UB}, throws |-> {"a"}]

\* A and B both import one data: url
WData ==
  [deps |-> [NoDeps EXCEPT !["a"] = << <<"data:", "x">> >>,
                           !["b"] = << <<"data:", "x">> >>],
   roots |-> {UA, UB}, throws |-> {}]

Worlds == {WCycle2, WTail, WSpell, WVirt, WFail, WCycleThrows, WData}
\* the virtual module and the package under one spelling each
WVirtCore == [WVirt EXCEPT !.roots = {UA, <<"virt">>, <<"pkg">>}]
CoreWorlds == {WCycle2, WCycle3, WTail, WSpell, WVirtCore}

\* ------------------------------------------------------------------ state
VARIABLES
  destroyed,    \* ModuleRunner.destroyed
  gen,          \* number of moduleCache.clear() calls so far
  recs,         \* the record objects: <<module id, gen at creation>> -> record
  urlToIdMap,   \* url -> module id
  fileToIdMap,  \* file -> sequence of module ids
  tasks,        \* the asynchronous chains: root imports and executions
  nInval,       \* number of moduleCache.invalidateModule calls so far
  nBogus,       \* number of cache-hit answers to fetches sent with cached:false
  world,        \* the environment of this behaviour
  limit,        \* the number of import() calls the application makes
  heap          \* the objects exportAll is applied to, and its last call

vars == <<destroyed, gen, recs, urlToIdMap, fileToIdMap, tasks, nInval, nBogus, world, limit, heap>>

\* what the environment has done to this behaviour so far
Perturbations == gen + nInval + nBogus

\* ------------------------------------------------------- the record store
NoMeta == [kind |-> "none", id |-> <<>>, file |-> NoFile, code |-> FALSE, name |-> ""]
EmptyRec ==
  [meta |-> NoMeta, exports |-> 0, promise |-> 0, evaluated |-> "unset",
   imports |-> <<>>, importers |-> <<>>]
NoH == <<<<>>, -1>>

\* the record object the store holds for an id now
Hd(id) == <<id, gen>>

\* ModuleCacheMap.getByModuleId: the store after the call (the record is
\* created, with empty edge sets, when the store has none)
getByModuleId(rs, id) ==
  IF Hd(id) \in DOMAIN rs THEN rs ELSE rs @@ (Hd(id) :> EmptyRec)

\* ModuleCacheMap.invalidateModule on the object h
invalidateModule(rs, h) ==
  [rs EXCEPT ![h] = EmptyRec]

\* Set.add in insertion order
SetAdd(s, x) == IF x \in Range(s) THEN s ELSE Append(s, x)

\* external values: what runExternalModule returns for a target
ExtValue(name) == IF name = "data" THEN -2 ELSE -1

\* ------------------------------------------------------- cycle detection
isCurcularModule(mod) ==
  \E importedFile \in Range(mod.imports) : importedFile \in Range(mod.importers)

\* isCurcularImport(importers, moduleId), from position i of importers.  The
\* recursion has no visited set: it does not return when it enters, a second
\* time, the importer set of a record it is already iterating (path), and the
\* call then ends in a stack overflow (res "D", a RangeError).  touched are the
\* ids getByModuleId was called with and had no record for.
RECURSIVE CircularImportFrom(_, _, _, _, _)
CircularImportFrom(rs, importers, moduleId, path, i) ==
  IF i > Len(importers) THEN [res |-> "F", touched |-> {}]
  ELSE
    LET importer == importers[i]
        h == Hd(importer)
        rest == CircularImportFrom(rs, importers, moduleId, path, i + 1)
    IN  IF importer = moduleId THEN [res |-> "T", touched |-> {}]
        ELSE IF h \notin DOMAIN rs
          THEN [res |-> rest.res, touched |-> rest.touched \cup {importer}]
        ELSE IF rs[h].importers = <<>> THEN rest
        ELSE IF h \in path THEN [res |-> "D", touched |-> {}]
        ELSE
          LET sub == CircularImportFrom(rs, rs[h].importers, moduleId,
                                        path \cup {h}, 1)
          IN  IF sub.res \in {"T", "D"} THEN sub
              ELSE [res |-> rest.res, touched |-> rest.touched \cup sub.touched]

isCurcularImport(rs, h, moduleId) ==
  CircularImportFrom(rs, rs[h].importers, moduleId, {h}, 1)

\* the store after the getByModuleId calls of a search
RECURSIVE Touch(_, _)
Touch(rs, ids) ==
  IF ids = {} THEN rs
  ELSE LET x == CHOOSE y \in ids : TRUE
       IN  Touch(getByModuleId(rs, x), ids \ {x})

\* callstack.includes(moduleId)
Includes(callstack, moduleId) == moduleId \in Range(callstack)

\* processImport returns the exports it is given
processImport(exports) == exports

\* ------------------------------------------------------------------ tasks
NewTask ==
  [kind |-> "root", pc |-> "fetch", arg |-> <<>>, url |-> <<>>, cached |-> FALSE,
   cm |-> NoH, rmod |-> NoH, wait |-> 0, got |-> 0, val |-> 0, err |-> "",
   mod |-> NoH, mid |-> <<>>, imp |-> <<>>, stack |-> <<>>, deps |-> <<>>,
   name |-> "", ran |-> FALSE, ans |-> ""]

Settled(t) == tasks[t].pc \in {"ok", "err"}
IsRoot(t) == tasks[t].kind = "root"
IsExec(t) == tasks[t].kind = "exec"
Roots == {t \in DOMAIN tasks : IsRoot(t)}
Execs == {t \in DOMAIN tasks : IsExec(t)}

\* a request of task tk fails: import() rejects; in an execution the rejection
\* propagates out of the evaluator and rejects the execution's promise
Fail(tk, e) == [tk EXCEPT !.pc = "err", !.err = e]

\* a request of task tk returns v: import() fulfils; the evaluator of an
\* execution goes on with the rest of the module
Return(tk, v) ==
  IF tk.kind = "root" THEN [tk EXCEPT !.pc = "ok", !.got = v, !.val = v]
  ELSE [tk EXCEPT !.pc = "run", !.got = v]

EmptyMap == [x \in {} |-> <<>>]
MapSet(m, k, v) == [x \in DOMAIN m \cup {k} |-> IF x = k THEN v ELSE m[x]]
MapGet(m, k, default) == IF k \in DOMAIN m THEN m[k] ELSE default
Last(s) == s[Len(s)]

\* --------------------------------------------------------------- exportAll
\* The objects exportAll works on: their kind, whether they are extensible,
\* and their own properties.  A property is a data property (acc = 0) or the
\* accessor exportAll defines, whose getter reads the same key of object acc.
Keys == {"a", "b", "default", "__esModule"}
ObjIds == {1, 2}
NoProp ==
  [present |-> FALSE, acc |-> 0, value |-> 0,
   enumerable |-> FALSE, configurable |-> FALSE]
DataProp(v, e, c) ==
  [present |-> TRUE, acc |-> 0, value |-> v, enumerable |-> e, configurable |-> c]
\* { enumerable: true, configurable: true, get: () => sourceModule[key] }
Getter(sourceModule) ==
  [present |-> TRUE, acc |-> sourceModule, value |-> 0,
   enumerable |-> TRUE, configurable |-> TRUE]

NoHeap == [objs |-> <<>>, pre |-> <<>>, call |-> <<0, 0>>, n |-> 0]

isPrimitive(o) == o.kind = "primitive"

\* Object.defineProperty(exports, key, ...) does not throw: the target is an
\* object, and the key is configurable on it or new on an extensible target
Definable(objs, t, key) ==
  /\ ~isPrimitive(objs[t])
  /\ IF objs[t].props[key].present
     THEN objs[t].props[key].configurable
     ELSE objs[t].extensible

\* for (const key in sourceModule): the enumerable keys
EnumerableKeys(objs, s) ==
  {k \in Keys : objs[s].props[k].present /\ objs[s].props[k].enumerable}

\* an exportAll that re-exports every enumerable key
ExportedKeysAll(objs, s) == EnumerableKeys(objs, s)

\* the keys exportAll re-exports: key !== 'default' && key !== '__esModule'
ExportedKeys(objs, s) == EnumerableKeys(objs, s) \ {"default", "__esModule"}

\* exportAll(exports, sourceModule) on the objects t and s: the objects after it
exportAll(objs, t, s) ==
  IF t = s THEN objs
  ELSE IF isPrimitive(objs[s]) \/ objs[s].kind \in {"array", "promise"} THEN objs
  ELSE [objs EXCEPT ![t].props =
          [k \in Keys |->
             IF k \in ExportedKeys(objs, s) /\ Definable(objs, t, k)
             THEN Getter(s) ELSE @[k]]]

\* reading o[key]: the value of a data property, what the getter of an
\* accessor returns, 0 for undefined, -9 when getters call each other without
\* end (RangeError)
RECURSIVE ReadFrom(_, _, _, _)
ReadFrom(objs, o, key, seen) ==
  IF isPrimitive(objs[o]) \/ ~objs[o].props[key].present THEN 0
  ELSE IF objs[o].props[key].acc = 0 THEN objs[o].props[key].value
  ELSE IF o \in seen THEN -9
  ELSE ReadFrom(objs, objs[o].props[key].acc, key, seen \cup {o})

Read(objs, o, key) == ReadFrom(objs, o, key, {})

\* ------------------------------------------------------------ cachedModule
\* cachedModule from its lookup of the url up to its await of
\* transport.fetchModule, for the request of task tk for url u: the task and the
\* store after it
cachedModuleLookup(tk, u) ==
  LET url == normalizeAbsoluteUrl(u)
      key == IF url \in DOMAIN urlToIdMap THEN urlToIdMap[url] ELSE url
      rs == getByModuleId(recs, key)
      isCached == rs[Hd(key)].meta.kind # "none"
  IN  [task |-> [tk EXCEPT !.pc = "fetch", !.arg = u, !.url = url,
                           !.cached = isCached, !.cm = Hd(key),
                           !.rmod = NoH, !.wait = 0, !.ans = ""],
       recs |-> rs]

\* a cachedModule without the destroyed check
cachedModuleCallUnchecked(tk, u) == cachedModuleLookup(tk, u)

\* cachedModule up to its await: it throws when the runner is destroyed
cachedModuleCall(tk, u) ==
  IF destroyed
  THEN [task |-> Fail([tk EXCEPT !.arg = u], "destroyed"), recs |-> recs]
  ELSE cachedModuleLookup(tk, u)

IsDataUrl(url) == Len(url) > 0 /\ url[1] = "data:"

\* the fetch result for a url: the transport's, or the synthetic externalize
\* result of a data: url
FetchResult(url) ==
  IF IsDataUrl(url)
  THEN [name |-> "data", kind |-> "ext", file |-> NoFile, code |-> FALSE]
  ELSE Resolve(url)

\* a runner that bases the module id on the url, not on the file
ModuleIdFromUrl(url) == normalize(url)

\* the module id cachedModule derives for a url and its fetch result
ModuleIdOf(url) ==
  LET file == FetchResult(url).file
      fileId == IF file # NoFile THEN file \o QueryOf(url) ELSE url
  IN  normalize(fileId)

\* a runner that keeps no url index
IndexedUrlsNone(url) == {}

\* the spellings cachedModule enters in urlToIdMap for a fetched url
IndexedUrls(url) == {url, unwrapId(url)}

\* import(url): a new chain, run up to the await of the fetch
ImportStart(u) ==
  /\ Cardinality(Roots) < limit
  /\ LET r == cachedModuleCall(NewTask, normalizeEntryUrl(u))
     IN  /\ tasks' = Append(tasks, [r.task EXCEPT !.arg = u])
         /\ recs' = r.recs
  /\ UNCHANGED <<destroyed, gen, urlToIdMap, fileToIdMap, nInval, nBogus, world, limit, heap>>

\* a runner that reuses the record looked up without testing its meta
CacheHitMistakenNever(rs, h) == FALSE

\* if (!cachedModule || !cachedModule.meta), on the record object looked up
\* before the fetch
CacheHitMistaken(rs, h) == rs[h].meta.kind = "none"

\* the transport answers cache-hit: cachedModule returns the record looked up
\* before the fetch, or throws when that record has no meta
FetchCacheHit(t) ==
  /\ tasks[t].pc = "fetch"
  /\ ~IsDataUrl(tasks[t].url)
  /\ tasks[t].cached \/ Perturbations < MaxEnv
  /\ nBogus' = IF tasks[t].cached THEN nBogus ELSE nBogus + 1
  /\ tasks' = [tasks EXCEPT ![t] =
       IF CacheHitMistaken(recs, tasks[t].cm)
       THEN Fail([@ EXCEPT !.ans = "cache"], "mistaken")
       ELSE [@ EXCEPT !.pc = "fetched", !.rmod = tasks[t].cm, !.ans = "cache"]]
  /\ UNCHANGED <<destroyed, gen, recs, urlToIdMap, fileToIdMap, nInval, world, limit, heap>>

\* the transport answers with a result (inline or externalize), flagged
\* invalidate or not: the rest of cachedModule
cachedModuleResult(t, invalidate) ==
  LET tk == tasks[t]
      url == tk.url
      res == FetchResult(url)
      moduleId == ModuleIdOf(url)
      h == Hd(moduleId)
      rs1 == getByModuleId(recs, moduleId)
      rs2 == IF invalidate THEN invalidateModule(rs1, h) ELSE rs1
      meta == [kind |-> res.kind, id |-> moduleId, file |-> res.file,
               code |-> res.code, name |-> res.name]
  IN  /\ recs' = [rs2 EXCEPT ![h].meta = meta]
      /\ fileToIdMap' =
           IF res.file # NoFile
           THEN MapSet(fileToIdMap, res.file,
                       Append(MapGet(fileToIdMap, res.file, <<>>), moduleId))
           ELSE fileToIdMap
      /\ urlToIdMap' = [x \in DOMAIN urlToIdMap \cup IndexedUrls(url) |->
                          IF x \in IndexedUrls(url) THEN moduleId
                          ELSE urlToIdMap[x]]
      /\ tasks' = [tasks EXCEPT ![t] =
           [@ EXCEPT !.pc = "fetched", !.rmod = h,
                     !.ans = IF invalidate THEN "invalidate" ELSE "result"]]

\* cachedModule for a data: url: the result is made up without a fetch, so
\* nothing is awaited and cachedModule runs from its lookup to its return in
\* one step: the task, the store and the url index after it
cachedModuleData(tk, u) ==
  LET r == cachedModuleLookup(tk, u)
      url == r.task.url
      res == FetchResult(url)
      moduleId == ModuleIdOf(url)
      h == Hd(moduleId)
      rs1 == getByModuleId(r.recs, moduleId)
      meta == [kind |-> res.kind, id |-> moduleId, file |-> res.file,
               code |-> res.code, name |-> res.name]
  IN  [task |-> [r.task EXCEPT !.pc = "fetched", !.rmod = h, !.ans = "result"],
       recs |-> [rs1 EXCEPT ![h].meta = meta],
       urls |-> [x \in DOMAIN urlToIdMap \cup IndexedUrls(url) |->
                   IF x \in IndexedUrls(url) THEN moduleId
                   ELSE urlToIdMap[x]]]

FetchResultPlain(t) ==
  /\ tasks[t].pc = "fetch"
  /\ cachedModuleResult(t, FALSE)
  /\ UNCHANGED <<destroyed, gen, nInval, nBogus, world, limit, heap>>

FetchResultInvalidate(t) ==
  /\ tasks[t].pc = "fetch"
  /\ ~IsDataUrl(tasks[t].url)
  /\ Perturbations < MaxEnv
  /\ nInval' = nInval + 1
  /\ cachedModuleResult(t, TRUE)
  /\ UNCHANGED <<destroyed, gen, nBogus, world, limit, heap>>

\* ----------------------------------------------------------- directRequest
\* directRequest(id, mod, callstack) up to its first await, as execution k on
\* the record object h: the new task
directRequest(rs, h, callstack, k) ==
  LET fetchResult == rs[h].meta
      moduleId == fetchResult.id
      base == [NewTask EXCEPT
                 !.kind = "exec", !.mod = h, !.mid = moduleId,
                 !.imp = IF fetchResult.file # NoFile THEN fetchResult.file
                         ELSE moduleId,
                 !.stack = Append(callstack, moduleId),
                 !.name = fetchResult.name]
  IN  IF fetchResult.kind = "ext"
        THEN [base EXCEPT !.pc = "ext", !.ran = TRUE]
      ELSE IF ~fetchResult.code
        THEN [base EXCEPT !.pc = "err", !.err = "load"]
      ELSE [base EXCEPT !.pc = "run", !.ran = TRUE, !.val = k,
                        !.deps = world.deps[fetchResult.name]]

\* a runner that creates the namespace object only when the evaluator is done
ExportsAtStartNone(rs, h, k) == rs[h].exports

\* the exports object directRequest puts on the record before its first await
\* (an inline module with code: the new namespace object of execution k)
ExportsAtStart(rs, h, k) ==
  IF rs[h].meta.kind = "inline" /\ rs[h].meta.code THEN k ELSE rs[h].exports

\* a runner that does not look for an execution future on the record
ExistingPromiseIgnored(rs, h) == 0

\* if (mod.promise): the execution future the record holds (0: none)
ExistingPromise(rs, h) == rs[h].promise

\* a runner that starts the execution and does not keep its future
StoredPromiseDropped(k) == 0

\* mod.promise = promise: the future cachedRequest stores for execution k
StoredPromise(k) == k

\* a runner without cycle detection
CycleCheckNever(rs, h, callstack) == [res |-> "F", touched |-> {}]

\* the cycle test of cachedRequest, in the order the code evaluates it
CycleCheck(rs, h, callstack) ==
  LET moduleId == rs[h].meta.id
  IN  IF Includes(callstack, moduleId) \/ isCurcularModule(rs[h])
      THEN [res |-> "T", touched |-> {}]
      ELSE isCurcularImport(rs, h, moduleId)

\* request(): the edges written after cachedModule returned (an execution's
\* nested request only)
RequestEdges(tk) ==
  IF tk.kind = "root" THEN recs
  ELSE
    LET resolvedId == recs[tk.rmod].meta.id
        rs1 == getByModuleId(recs, resolvedId)
        rs2 == [rs1 EXCEPT ![Hd(resolvedId)].importers = SetAdd(@, tk.mid)]
    IN  [rs2 EXCEPT ![tk.mod].imports = SetAdd(@, resolvedId)]

\* the continuation after `await cachedModule`: request()'s edges, then
\* cachedRequest up to its return or its await.  When the record has lost its
\* meta since cachedModule returned it, reading meta.id throws a TypeError
\* (in request() for a nested request, in cachedRequest for a root one) before
\* anything is written.
CachedRequest(t) ==
  /\ tasks[t].pc = "fetched"
  /\ LET tk == [tasks[t] EXCEPT !.ans = ""]
         h == tk.rmod
         callstack == tk.stack
         rs3 == RequestEdges(tk)
         rs4 == IF callstack # <<>>
                THEN [rs3 EXCEPT ![h].importers = SetAdd(@, Last(callstack))]
                ELSE rs3
         cyc == CycleCheck(rs4, h, callstack)
         rs5 == Touch(rs4, cyc.touched)
         k == Len(tasks) + 1
     IN  IF recs[h].meta.kind = "none"
           THEN /\ tasks' = [tasks EXCEPT ![t] = Fail(tk, "type")]
                /\ recs' = recs
         ELSE IF cyc.res = "D"
           THEN /\ tasks' = [tasks EXCEPT ![t] = Fail(tk, "overflow")]
                /\ recs' = rs5
         ELSE IF cyc.res = "T" /\ rs5[h].exports # 0
           THEN /\ tasks' = [tasks EXCEPT ![t] = Return(tk, processImport(rs5[h].exports))]
                /\ recs' = rs5
         ELSE IF ExistingPromise(rs5, h) # 0
           THEN /\ tasks' = [tasks EXCEPT ![t] =
                       [tk EXCEPT !.pc = "await", !.wait = ExistingPromise(rs5, h)]]
                /\ recs' = rs5
         ELSE /\ tasks' = Append([tasks EXCEPT ![t] =
                                    [tk EXCEPT !.pc = "await", !.wait = k]],
                                 directRequest(rs5, h, callstack, k))
              /\ recs' = [rs5 EXCEPT ![h].exports = ExportsAtStart(rs5, h, k),
                                     ![h].promise = StoredPromise(k),
                                     ![h].evaluated = "false"]
  /\ UNCHANGED <<destroyed, gen, urlToIdMap, fileToIdMap, nInval, nBogus, world, limit, heap>>

\* the awaited execution future has settled: the finally block of
\* cachedRequest, then its return or its rethrow
Settle(t) ==
  /\ tasks[t].pc = "await"
  /\ Settled(tasks[t].wait)
  /\ LET tk == tasks[t]
         p == tasks[tk.wait]
     IN  /\ recs' = [recs EXCEPT ![tk.rmod].evaluated = "true"]
         /\ tasks' = [tasks EXCEPT ![t] =
              IF p.pc = "ok" THEN Return(tk, processImport(p.val))
              ELSE Fail(tk, p.err)]
  /\ UNCHANGED <<destroyed, gen, urlToIdMap, fileToIdMap, nInval, nBogus, world, limit, heap>>

\* the evaluator reaches the next import of the module: request(dep) up to
\* the await of the fetch, or, for a data: url, up to the return of
\* cachedModule
ExecImport(t) ==
  /\ IsExec(t)
  /\ tasks[t].pc = "run"
  /\ tasks[t].deps # <<>>
  /\ LET tk == [tasks[t] EXCEPT !.deps = Tail(@)]
         u == Head(tasks[t].deps)
     IN  IF ~destroyed /\ IsDataUrl(normalizeAbsoluteUrl(u))
         THEN LET r == cachedModuleData(tk, u)
              IN  /\ tasks' = [tasks EXCEPT ![t] = r.task]
                  /\ recs' = r.recs
                  /\ urlToIdMap' = r.urls
         ELSE LET r == cachedModuleCall(tk, u)
              IN  /\ tasks' = [tasks EXCEPT ![t] = r.task]
                  /\ recs' = r.recs
                  /\ urlToIdMap' = urlToIdMap
  /\ UNCHANGED <<destroyed, gen, fileToIdMap, nInval, nBogus, world, limit, heap>>

\* runInlinedModule returns, or throws: directRequest returns exports
ExecFinish(t) ==
  /\ IsExec(t)
  /\ tasks[t].pc = "run"
  /\ tasks[t].deps = <<>>
  /\ tasks' = [tasks EXCEPT ![t] =
       IF @.name \in world.throws THEN Fail(@, "eval")
       ELSE [@ EXCEPT !.pc = "ok"]]
  /\ UNCHANGED <<destroyed, gen, recs, urlToIdMap, fileToIdMap, nInval, nBogus, world, limit, heap>>

\* runExternalModule returns: mod.exports = exports
ExtReturn(t) ==
  /\ IsExec(t)
  /\ tasks[t].pc = "ext"
  /\ recs' = [recs EXCEPT ![tasks[t].mod].exports = ExtValue(tasks[t].name)]
  /\ tasks' = [tasks EXCEPT ![t] =
       [@ EXCEPT !.pc = "ok", !.val = ExtValue(tasks[t].name)]]
  /\ UNCHANGED <<destroyed, gen, urlToIdMap, fileToIdMap, nInval, nBogus, world, limit, heap>>

\* clearCache(): moduleCache.clear() drops the records from the store (chains
\* that hold a record keep the object); urlToIdMap.clear()
ClearCache ==
  /\ ~destroyed
  /\ Perturbations < MaxEnv
  /\ gen' = gen + 1
  /\ urlToIdMap' = EmptyMap
  /\ UNCHANGED <<destroyed, recs, fileToIdMap, tasks, nInval, nBogus, world, limit, heap>>

\* destroy(): clearCache(), destroyed = true
Destroy ==
  /\ ~destroyed
  /\ Perturbations < MaxEnv
  /\ gen' = gen + 1
  /\ urlToIdMap' = EmptyMap
  /\ destroyed' = TRUE
  /\ UNCHANGED <<recs, fileToIdMap, tasks, nInval, nBogus, world, limit, heap>>

\* ------------------------------------------------------------ specification
Init ==
  /\ destroyed = FALSE
  /\ gen = 0
  /\ recs = EmptyMap
  /\ urlToIdMap = EmptyMap
  /\ fileToIdMap = EmptyMap
  /\ tasks = <<>>
  /\ nInval = 0
  /\ nBogus = 0
  /\ world \in Worlds
  /\ limit = MaxRoots
  /\ heap = NoHeap

Next ==
  \/ \E u \in world.roots : ImportStart(u)
  \/ \E t \in DOMAIN tasks : FetchCacheHit(t)
  \/ \E t \in DOMAIN tasks : FetchResultPlain(t)
  \/ \E t \in DOMAIN tasks : FetchResultInvalidate(t)
  \/ \E t \in DOMAIN tasks : CachedRequest(t)
  \/ \E t \in DOMAIN tasks : Settle(t)
  \/ \E t \in DOMAIN tasks : ExecImport(t)
  \/ \E t \in DOMAIN tasks : ExecFinish(t)
  \/ \E t \in DOMAIN tasks : ExtReturn(t)
  \/ ClearCache
  \/ Destroy

Spec == Init /\ [][Next]_vars

\* The runner left to itself: no clearCache, no destroy, no answer flagged
\* invalidate, and cache-hit answers only to fetches sent with cached:true.
InitCore ==
  /\ destroyed = FALSE
  /\ gen = 0
  /\ recs = EmptyMap
  /\ urlToIdMap = EmptyMap
  /\ fileToIdMap = EmptyMap
  /\ tasks = <<>>
  /\ nInval = 0
  /\ nBogus = 0
  /\ world \in CoreWorlds
  /\ limit = MaxCoreRoots
  /\ heap = NoHeap

\* the steps of the chains in flight
Progress ==
  \/ \E t \in DOMAIN tasks : tasks[t].cached /\ FetchCacheHit(t)
  \/ \E t \in DOMAIN tasks : FetchResultPlain(t)
  \/ \E t \in DOMAIN tasks : CachedRequest(t)
  \/ \E t \in DOMAIN tasks : Settle(t)
  \/ \E t \in DOMAIN tasks : ExecImport(t)
  \/ \E t \in DOMAIN tasks : ExecFinish(t)
  \/ \E t \in DOMAIN tasks : ExtReturn(t)

\* the urls the application may import next; on the three-module cycle the
\* first import() is of A (the cycle is the same under the renaming
\* A -> B -> C -> A, so a behaviour that enters at B or C is one of these)
EntryRoots == IF world = WCycle3 /\ tasks = <<>> THEN {UA} ELSE world.roots

NextCore ==
  \/ \E u \in EntryRoots : ImportStart(u)
  \/ Progress

SpecCore == InitCore /\ [][NextCore]_vars

\* One import chain at a time, every continuation that is ready eventually
\* run (the event loop runs every queued continuation; the transport and the
\* evaluator return).
InitChain ==
  /\ destroyed = FALSE
  /\ gen = 0
  /\ recs = EmptyMap
  /\ urlToIdMap = EmptyMap
  /\ fileToIdMap = EmptyMap
  /\ tasks = <<>>
  /\ nInval = 0
  /\ nBogus = 0
  /\ world \in CoreWorlds \cup {WFail}
  /\ limit = MaxChainRoots
  /\ heap = NoHeap

SpecChain == InitChain /\ [][NextCore]_vars /\ WF_vars(Progress)

\* The runner with hot reload: between the runner's steps the hot-reload
\* handler invalidates a record of the store (moduleCache.invalidateModule).
InvalidateRecord(h) ==
  /\ ~destroyed
  /\ Perturbations < MaxEnv
  /\ h[2] = gen
  /\ recs[h].meta.kind # "none"
  /\ nInval' = nInval + 1
  /\ recs' = invalidateModule(recs, h)
  /\ UNCHANGED <<destroyed, gen, urlToIdMap, fileToIdMap, tasks, nBogus, world, limit, heap>>

NextHmr ==
  \/ Next
  \/ \E h \in DOMAIN recs : InvalidateRecord(h)

SpecHmr == Init /\ [][NextHmr]_vars

\* exportAll on its own: a namespace object (1) and another value (2), with
\* every combination of the properties that matter to exportAll; the
\* application calls exportAll and assigns to the properties of the source.
MaxCalls == 2

TargetObjects ==
  {[kind |-> "object", extensible |-> x,
    props |-> [k \in Keys |-> IF k = "a" THEN pa
                              ELSE IF k = "default" THEN pd ELSE NoProp]]
     : x \in BOOLEAN,
       pa \in {NoProp, DataProp(7, TRUE, TRUE), DataProp(7, TRUE, FALSE)},
       pd \in {NoProp, DataProp(8, TRUE, TRUE), DataProp(8, TRUE, FALSE)}}

SourceObjects ==
  {[kind |-> "object", extensible |-> TRUE,
    props |-> [k \in Keys |-> CASE k = "a" -> pa [] k = "b" -> pb
                                [] k = "default" -> pd [] OTHER -> pe]]
     : pa \in {NoProp, DataProp(1, TRUE, TRUE), DataProp(1, FALSE, TRUE)},
       pb \in {NoProp, DataProp(2, TRUE, TRUE)},
       pd \in {NoProp, DataProp(99, TRUE, TRUE)},
       pe \in {NoProp, DataProp(1, TRUE, TRUE)}}
  \cup {[kind |-> kd, extensible |-> TRUE, props |-> [k \in Keys |-> NoProp]]
          : kd \in {"primitive", "array", "promise"}}

InitExports ==
  /\ destroyed = FALSE
  /\ gen = 0
  /\ recs = EmptyMap
  /\ urlToIdMap = EmptyMap
  /\ fileToIdMap = EmptyMap
  /\ tasks = <<>>
  /\ nInval = 0
  /\ nBogus = 0
  /\ world = WSpell
  /\ limit = 0
  /\ \E o1 \in TargetObjects, o2 \in SourceObjects :
       heap = [NoHeap EXCEPT !.objs = <<o1, o2>>, !.pre = <<o1, o2>>]

\* exportAll(t, s) is called
ExportAll(t, s) ==
  /\ heap.n < MaxCalls
  /\ heap' = [objs |-> exportAll(heap.objs, t, s), pre |-> heap.objs,
              call |-> <<t, s>>, n |-> heap.n + 1]
  /\ UNCHANGED <<destroyed, gen, recs, urlToIdMap, fileToIdMap, tasks, nInval,
                 nBogus, world, limit>>

\* the application assigns v to a data property of the source of the last call
Mutate(key, v) ==
  /\ heap.n > 0
  /\ LET s == heap.call[2]
     IN  /\ heap.objs[s].kind = "object"
         /\ heap.objs[s].props[key].present
         /\ heap.objs[s].props[key].acc = 0
         /\ heap.objs[s].props[key].value # v
         /\ heap' = [heap EXCEPT !.objs[s].props[key].value = v]
  /\ UNCHANGED <<destroyed, gen, recs, urlToIdMap, fileToIdMap, tasks, nInval,
                 nBogus, world, limit>>

NextExports ==
  \/ \E t, s \in ObjIds : ExportAll(t, s)
  \/ \E key \in Keys, v \in {1, 2} : Mutate(key, v)

SpecExports == InitExports /\ [][NextExports]_vars

\* The runner left to itself on the module graphs with failing modules.
InitFail ==
  /\ destroyed = FALSE
  /\ gen = 0
  /\ recs = EmptyMap
  /\ urlToIdMap = EmptyMap
  /\ fileToIdMap = EmptyMap
  /\ tasks = <<>>
  /\ nInval = 0
  /\ nBogus = 0
  /\ world \in {WFail, WCycleThrows, WVirt}
  /\ limit = MaxRoots
  /\ heap = NoHeap

SpecFail == InitFail /\ [][NextCore]_vars

\* ------------------------------------------------------------------ claims
\* the executions that invoked the evaluator (runInlinedModule or
\* runExternalModule) for module id m
Invocations(m) == {e \in Execs : tasks[e].ran /\ tasks[e].mid = m}

\* the import() calls that fulfilled
Fulfilled == {r \in Roots : tasks[r].pc = "ok"}

\* C1: with no clearCache, no destroy and no answer flagged invalidate, the
\* evaluator is invoked at most once for a module identity however many
\* import() calls run concurrently, exactly once for the module of an import()
\* that fulfilled, and all fulfilled import() calls of one module hold the same
\* exports object.
C1_SingleFlight ==
  /\ \A e \in Execs : Cardinality(Invocations(tasks[e].mid)) <= 1
  /\ \A r \in Fulfilled : Cardinality(Invocations(ModuleIdOf(tasks[r].url))) = 1
  /\ \A r1, r2 \in Fulfilled :
       ModuleIdOf(tasks[r1].url) = ModuleIdOf(tasks[r2].url)
         => tasks[r1].val = tasks[r2].val

\* three import() calls of one url of a module that imports, all fulfilled
C1_Witness ==
  /\ Cardinality(Fulfilled) = 3
  /\ \A r \in Fulfilled : tasks[r].arg = UA /\ tasks[r].val # 0
  /\ world = WCycle2

\* the request task t is about to continue with targets a module that is on
\* the request's callstack and has an exports object
Reentrant(t) ==
  /\ tasks[t].pc = "fetched"
  /\ Includes(tasks[t].stack, recs[tasks[t].rmod].meta.id)
  /\ recs[tasks[t].rmod].exports # 0

\* C2: a request whose target is on its callstack and has an exports object
\* returns that exports object at once: no execution is started, the target's
\* future is not awaited and stays as it is; and every import() of a chain
\* eventually settles.
C2_Reentrant ==
  /\ [][\A t \in DOMAIN tasks :
          (Reentrant(t) /\ tasks'[t] # tasks[t])
            => /\ tasks'[t].pc = "run"
               /\ tasks'[t].got = recs[tasks[t].rmod].exports
               /\ Len(tasks') = Len(tasks)
               /\ recs'[tasks[t].rmod].promise = recs[tasks[t].rmod].promise
               /\ recs'[tasks[t].rmod].exports = recs[tasks[t].rmod].exports]_vars
  /\ []<>(\A r \in Roots : Settled(r))

\* import(A) fulfilled, where A imports B and B imports A: the execution of B
\* got A's exports object from its request for A, which was on its callstack
C2_Witness ==
  /\ world = WCycle2
  /\ \E r \in Fulfilled : tasks[r].arg = UA
  /\ \E a, b \in Execs :
       /\ tasks[a].mid = UA /\ tasks[b].mid = UB
       /\ tasks[b].stack = <<UA, UB>>
       /\ tasks[b].rmod = tasks[a].mod
       /\ tasks[b].got = tasks[a].val
       /\ tasks[b].pc = "ok"
       /\ Cardinality(Invocations(UA)) = 1

\* following the futures awaited from task t, at most n of them, a task is
\* reached that awaits no future
RECURSIVE ReachesRunnable(_, _)
ReachesRunnable(t, n) ==
  IF tasks[t].pc # "await" THEN TRUE
  ELSE IF n = 0 THEN FALSE
  ELSE ReachesRunnable(tasks[t].wait, n - 1)

\* task t has a continuation that can run now: its fetch is answered, it goes
\* on after an await, its evaluator goes on, or the future it awaits has settled
Runnable(t) ==
  \/ tasks[t].pc \in {"fetch", "fetched", "run", "ext"}
  \/ tasks[t].pc = "await" /\ Settled(tasks[t].wait)

\* C3: no set of requests each awaits an execution future that settles only
\* after another request of the set returns, and while an import() or an
\* execution is unsettled some continuation can run, in every interleaving of
\* concurrent import() calls of the modules of an import cycle.
C3_NoDeadlock ==
  /\ \A t \in DOMAIN tasks : ReachesRunnable(t, Len(tasks))
  /\ (\E t \in DOMAIN tasks : ~Settled(t)) => \E t \in DOMAIN tasks : Runnable(t)

\* import(A), import(B) and import(C) ran concurrently on the cycle
\* A -> B -> C -> A (all three executions started before any finished, one
\* request joined the pending future of another chain) and all fulfilled
C3_Witness ==
  /\ world = WCycle3
  /\ {tasks[r].arg : r \in Fulfilled} = {UA, UB, UC}
  /\ \A e \in Execs : tasks[e].pc = "ok" /\ Len(tasks[e].stack) = 1
  /\ Cardinality(Execs) = 3

\* the executions in flight on the record object h: the evaluator was invoked
\* and the execution has not settled
InFlight(h) == {e \in Execs : tasks[e].mod = h /\ tasks[e].ran /\ ~Settled(e)}

\* C4: each module record has at most one execution in flight.
C4_OneInFlight == \A h \in DOMAIN recs : Cardinality(InFlight(h)) <= 1

\* the request of task t has a record (cachedModule returned it)
Resolved(t) == tasks[t].rmod # NoH

\* the evaluator of execution t threw after its last request had returned:
\* the failure is the module's own, not the rejection of a future it awaited
ThrewAfterReturn(t) ==
  /\ IsExec(t)
  /\ tasks[t].pc = "err" /\ tasks[t].err = "eval"
  /\ tasks[t].name \in world.throws /\ tasks[t].deps = <<>>
  /\ tasks[t].wait = 0 \/ tasks[tasks[t].wait].pc = "ok"

\* the request of task t has returned a value: import() fulfilled, or the
\* request of an execution returned to the evaluator (which goes on, has
\* finished, or threw afterwards)
Returned(t) ==
  /\ Resolved(t)
  /\ tasks[t].pc \in {"run", "ok"} \/ ThrewAfterReturn(t)

\* the transport resolves the urls of the requests of t1 and t2 to one file
SameFile(t1, t2) ==
  /\ ~IsDataUrl(tasks[t1].url) /\ ~IsDataUrl(tasks[t2].url)
  /\ Resolve(tasks[t1].url).file # NoFile
  /\ Resolve(tasks[t1].url).file = Resolve(tasks[t2].url).file

\* C5 as stated: two requests for urls the transport resolves to one file
\* resolve to the same record and return the same exports object, whatever
\* their query strings.
C5_SameFileAnyQuery ==
  \A t1, t2 \in DOMAIN tasks :
    (Resolved(t1) /\ Resolved(t2) /\ SameFile(t1, t2) /\ Perturbations = 0)
      => /\ tasks[t1].rmod = tasks[t2].rmod
         /\ (Returned(t1) /\ Returned(t2)) => tasks[t1].got = tasks[t2].got

\* C5, amended: two requests for urls the transport resolves to one file
\* resolve to the same module id when the urls carry the same query string,
\* and then, with no invalidation and no clearCache, to the same record and the
\* same exports object; with different query strings they resolve to
\* different module ids.
C5_SameFileSameQuery ==
  \A t1, t2 \in DOMAIN tasks :
    (Resolved(t1) /\ Resolved(t2) /\ SameFile(t1, t2))
      => IF QueryOf(tasks[t1].url) = QueryOf(tasks[t2].url)
         THEN /\ tasks[t1].rmod[1] = tasks[t2].rmod[1]
              /\ Perturbations = 0
                   => /\ tasks[t1].rmod = tasks[t2].rmod
                      /\ (Returned(t1) /\ Returned(t2))
                           => tasks[t1].got = tasks[t2].got
         ELSE tasks[t1].rmod[1] # tasks[t2].rmod[1]

\* import("/a") and import("/a.js") both fulfilled with one exports object
C5_Witness ==
  \E r1, r2 \in Fulfilled :
    /\ tasks[r1].arg = <<"/a">> /\ tasks[r2].arg = <<"/a.js">>
    /\ tasks[r1].rmod = tasks[r2].rmod
    /\ tasks[r1].val = tasks[r2].val /\ tasks[r1].val # 0

\* this step is an import() call: the new chain
NewRoot == Len(tasks) + 1
ImportCalled == Len(tasks') = Len(tasks) + 1 /\ tasks'[NewRoot].kind = "root"

\* C6: once an import() has resolved a module to a record and the cache has
\* not been cleared since, every later import() of the same url, or of its
\* unwrapped spelling, sends its fetch with cached:true, never with
\* cached:false (on a destroyed runner the import() is rejected and sends none).
C6_ReimportCached ==
  [][\A r \in Roots :
       ( /\ ImportCalled
         /\ Resolved(r)
         /\ tasks[r].rmod[2] = gen
         /\ tasks'[NewRoot].arg \in {tasks[r].arg, unwrapId(tasks[r].url)} )
       => /\ tasks'[NewRoot].pc = "fetch" => tasks'[NewRoot].cached
          /\ ~destroyed => tasks'[NewRoot].pc = "fetch"]_vars

\* import("/@id/virt") fulfilled, and a later import("virt"), the unwrapped
\* spelling, has its fetch in flight with cached:true
C6_Witness ==
  \E r1, r2 \in Roots :
    /\ r1 < r2
    /\ tasks[r1].arg = <<"/@id/", "virt">> /\ tasks[r1].pc = "ok"
    /\ tasks[r2].arg = <<"virt">> /\ tasks[r2].pc = "fetch" /\ tasks[r2].cached
    /\ gen = 0

\* the record object h holds an execution future that has not settled
Pending(h) ==
  /\ h \in DOMAIN recs
  /\ recs[h].promise # 0
  /\ ~Settled(recs[h].promise)

\* this step is the call of transport.fetchModule for the request of task t
FetchSent(t) ==
  /\ tasks'[t].pc = "fetch"
  /\ ~IsDataUrl(tasks'[t].url)
  /\ t \in DOMAIN tasks => tasks[t].pc # "fetch"

\* the record the store holds for the module the url names: the one
\* cachedModule resolves the url to
ModuleRecord(url) == Hd(ModuleIdOf(url))

\* this step is the arrival of the request of task t: import() or the
\* evaluator's import calls cachedModule, which looks the url up and gets to
\* its fetch or, for a data: url, to its return
RequestArrives(t) ==
  IF t \in DOMAIN tasks
  THEN tasks[t].pc = "run" /\ tasks'[t].pc \in {"fetch", "fetched"}
  ELSE tasks'[t].kind = "root" /\ tasks'[t].pc = "fetch"

\* isCached of cachedModule for a url, on the store as it is: the record found
\* under urlToIdMap.get(url), or else under the url itself, exists and has meta
KnownUrl(url) ==
  LET key == IF url \in DOMAIN urlToIdMap THEN urlToIdMap[url] ELSE url
  IN  /\ Hd(key) \in DOMAIN recs
      /\ recs[Hd(key)].meta.kind # "none"

Started(k) ==
  /\ k \in DOMAIN tasks' /\ k \notin DOMAIN tasks
  /\ tasks'[k].kind = "exec"
  /\ tasks'[k].ran

\* C8 as stated, for every kind of module: when the execution of a module
\* starts, the exports of its record has been assigned.
C8_AssignedBeforeExecution ==
  [][\A k \in DOMAIN tasks' : Started(k) => recs'[tasks'[k].mod].exports # 0]_vars

\* C8, amended: the exports of a record, once assigned, is not replaced by
\* another object until the record is invalidated; it is assigned when
\* directRequest starts, before the evaluator is invoked, for an inline module,
\* and only when runExternalModule returns for an externalized module; and
\* until an invalidation every request that returns for the record returns
\* the exports the record holds.
C8_ExportsOnce ==
  /\ [][/\ \A h \in DOMAIN recs :
             recs[h].exports # 0
               => \/ recs'[h].exports = recs[h].exports
                  \/ recs'[h].exports = 0 /\ nInval' = nInval + 1
        /\ \A k \in DOMAIN tasks' :
             Started(k)
               => IF tasks'[k].pc = "ext"
                  THEN recs'[tasks'[k].mod].exports = recs[tasks'[k].mod].exports
                  ELSE recs'[tasks'[k].mod].exports = k /\ tasks'[k].val = k
        /\ \A e \in Execs :
             (tasks[e].pc = "ext" /\ tasks'[e].pc # "ext")
               => /\ tasks'[e].pc = "ok"
                  /\ recs'[tasks[e].mod].exports = tasks'[e].val
                  /\ tasks'[e].val # 0]_vars
  /\ [](nInval = 0
          => \A t \in DOMAIN tasks :
               Returned(t) => tasks[t].got = recs[tasks[t].rmod].exports)

\* an import() of an inline module joined its execution and an import() of an
\* externalized module both fulfilled with the exports of their records, and
\* the execution of the inline module got the externalized module's exports
C8_Witness ==
  /\ \E r1, r2 \in Fulfilled :
       /\ tasks[r1].arg = UA /\ tasks[r1].val > 0
       /\ tasks[r2].arg = <<"pkg">> /\ tasks[r2].val = ExtValue("pkg")
       /\ recs[tasks[r1].rmod].exports = tasks[r1].val
       /\ recs[tasks[r2].rmod].exports = tasks[r2].val
  /\ \E e \in Execs : tasks[e].mid = UA /\ tasks[e].got = ExtValue("pkg")
  /\ nInval = 0

isDestroyed == destroyed

\* C9: once destroy() has been called isDestroyed() stays true, and every
\* import() called from then on is rejected with the destroyed failure in the
\* call itself: it sends no fetch, creates no record and starts no execution,
\* and it stays rejected.
C9_DestroyedRejects ==
  [][isDestroyed
       => /\ isDestroyed'
          /\ ImportCalled
               => /\ tasks'[NewRoot].pc = "err"
                  /\ tasks'[NewRoot].err = "destroyed"
                  /\ ~FetchSent(NewRoot)
                  /\ recs' = recs
          /\ \A r \in Roots :
               tasks[r].err = "destroyed" => tasks'[r] = tasks[r]]_vars

\* an import() of a url was fulfilled, the runner was destroyed, and a second
\* import() of the same url was rejected with the destroyed failure
C9_Witness ==
  /\ isDestroyed
  /\ \E r1 \in Fulfilled, r2 \in Roots :
       /\ r1 < r2
       /\ tasks[r2].arg = tasks[r1].arg
       /\ tasks[r2].pc = "err"
       /\ tasks[r2].err = "destroyed"

\* no import, of the public api or of a running module, has looked a url up
\* since the cache was last cleared
NoLookupSinceClear == \A t \in DOMAIN tasks : tasks[t].cm[2] < gen

\* C10 as stated: after clearCache() the url index is empty, and the first
\* import() after it, when it is of a url imported before, sends its fetch
\* with cached:false, also when a fetch was pending at the clearCache() call.
C10_ColdAfterClear ==
  [][/\ (gen' # gen => urlToIdMap' = EmptyMap)
     /\ (/\ gen > 0 /\ ~destroyed
         /\ NoLookupSinceClear
         /\ ImportCalled
         /\ \E r \in Roots : tasks[r].arg = tasks'[NewRoot].arg)
          => FetchSent(NewRoot) /\ ~tasks'[NewRoot].cached]_vars

\* this step is the arrival of the transport's cache-hit answer to the fetch
\* of task t
CacheHitAnswered(t) ==
  /\ t \in DOMAIN tasks
  /\ tasks[t].pc = "fetch"
  /\ tasks'[t].pc # "fetch"
  /\ tasks'[t].ans = "cache"

\* C11: when the transport answers cache-hit and the record cachedModule
\* looked up for the url has meta when the answer arrives, cachedModule returns
\* that record and changes nothing (records, url index, file index); when that
\* record has no meta then (it never had, or it was invalidated while the fetch
\* was pending), cachedModule throws the "mistakenly invalidated" error and
\* changes nothing either.
C11_CacheHit ==
  [][\A t \in DOMAIN tasks :
       CacheHitAnswered(t)
         => /\ recs' = recs
            /\ urlToIdMap' = urlToIdMap
            /\ fileToIdMap' = fileToIdMap
            /\ IF recs[tasks[t].cm].meta.kind # "none"
               THEN /\ tasks'[t].pc = "fetched"
                    /\ tasks'[t].rmod = tasks[t].cm
               ELSE /\ tasks'[t].pc = "err"
                    /\ tasks'[t].err = "mistaken"]_vars

\* an import() fulfilled, a second import() of the url was sent with
\* cached:true, the record was invalidated while that fetch was pending, and
\* the cache-hit answer made the second import() fail; the record stays reset
C11_Witness ==
  \E r1, r2 \in Roots :
    /\ r1 < r2
    /\ tasks[r1].pc = "ok"
    /\ tasks[r2].cached /\ tasks[r2].ans = "cache"
    /\ tasks[r2].pc = "err" /\ tasks[r2].err = "mistaken"
    /\ tasks[r2].cm = tasks[r1].rmod
    /\ recs[tasks[r2].cm] = EmptyRec
    /\ nInval = 1

\* the arguments of the last exportAll call, and whether this step is a call
Target == heap.call[1]
Source == heap.call[2]
ExportAllCalled == heap'.n = heap.n + 1

\* the calls exportAll returns from at once
NoOpCall(objs, t, s) ==
  t = s \/ objs[s].kind \in {"primitive", "array", "promise"}

\* C12 as stated: exportAll defines on the target an accessor for every
\* enumerable key of the source other than default and __esModule.
C12_EveryKeyDefined ==
  [][ExportAllCalled
       => LET t == heap'.call[1]
              s == heap'.call[2]
          IN  ~NoOpCall(heap.objs, t, s)
                => \A k \in EnumerableKeys(heap.objs, s) \ {"default", "__esModule"} :
                     heap'.objs[t].props[k] = Getter(s)]_vars

\* C12, amended: exportAll defines on the target, for every enumerable key of
\* the source other than default and __esModule that can be defined on the
\* target (the target is an object, the key is configurable on it or new on
\* an extensible target), an accessor that reads the source's key at read time,
\* so that later assignments to the source show through the target; it leaves
\* every other property of the target as it was, default and __esModule
\* included, and it changes nothing when the source is the target, a
\* primitive, an array or a promise.
C12_ExportAll ==
  /\ [][ExportAllCalled
          => LET t == heap'.call[1]
                 s == heap'.call[2]
                 defined == {k \in EnumerableKeys(heap.objs, s) \ {"default", "__esModule"} :
                               Definable(heap.objs, t, k)}
             IN  /\ \A o \in ObjIds \ {t} : heap'.objs[o] = heap.objs[o]
                 /\ NoOpCall(heap.objs, t, s) => heap'.objs = heap.objs
                 /\ ~NoOpCall(heap.objs, t, s)
                      => \A k \in Keys :
                           IF k \in defined
                           THEN heap'.objs[t].props[k] = Getter(s)
                           ELSE heap'.objs[t].props[k] = heap.objs[t].props[k]]_vars
  /\ [](heap.n > 0 /\ ~NoOpCall(heap.pre, Target, Source)
          => \A k \in EnumerableKeys(heap.pre, Source) \ {"default", "__esModule"} :
               Definable(heap.pre, Target, k)
                 => Read(heap.objs, Target, k) = Read(heap.objs, Source, k))

\* exportAll(ns, {a, b, default, __esModule}) was called on a namespace that
\* had its own default, and a was assigned afterwards: ns.a reads the new
\* value, ns.b the source's b, and ns.default is the namespace's own
C12_Witness ==
  /\ heap.n = 1 /\ heap.call = <<1, 2>>
  /\ EnumerableKeys(heap.pre, 2) = Keys
  /\ heap.pre[2].props["a"].value = 1
  /\ heap.objs[2].props["a"].value = 2
  /\ Read(heap.objs, 1, "a") = 2
  /\ Read(heap.objs, 1, "b") = 2
  /\ Read(heap.objs, 1, "default") = 8
  /\ Read(heap.objs, 1, "__esModule") = 0

\* C13: the search over the importer edges returns in every request: no
\* request ends in the stack overflow of isCurcularImport.
C13_SearchTerminates ==
  \A t \in DOMAIN tasks : tasks[t].err # "overflow"

\* C14: in the step in which a root import() fulfils, the execution future of
\* its record has settled.
C14_FulfilsAfterExecution ==
  [][\A r \in Roots :
       (tasks[r].pc # "ok" /\ tasks'[r].pc = "ok")
         => /\ recs'[tasks'[r].rmod].promise # 0
            /\ tasks'[recs'[tasks'[r].rmod].promise].pc \in {"ok", "err"}]_vars

\* the executions started on the record object h so far
ExecutionsOf(h) == {e \in Execs : tasks[e].mod = h}

\* the request of task t got an answer flagged invalidate for a module that
\* had been executed, and continues with cachedRequest in this step
InvalidatedRequestContinues(t) ==
  /\ tasks[t].pc = "fetched"
  /\ tasks[t].ans = "invalidate"
  /\ tasks'[t] # tasks[t]
  /\ ExecutionsOf(tasks[t].rmod) # {}
  /\ \A e \in ExecutionsOf(tasks[t].rmod) : tasks[e].pc = "ok"

\* C15: an answer flagged invalidate for an executed module leaves the record
\* reset with the new meta, and the request that follows executes the module
\* again: it starts a new execution with that meta, whose exports is not the
\* exports of an earlier execution, or joins the one another chain started
\* after the reset, and it never returns the exports of the earlier execution.
C15_Reexecuted ==
  [][\A t \in DOMAIN tasks :
       InvalidatedRequestContinues(t)
         => LET h == tasks[t].rmod
                k == Len(tasks) + 1
            IN  \/ /\ recs[h].promise = 0
                   /\ Len(tasks') = k
                   /\ tasks'[k].kind = "exec" /\ tasks'[k].mod = h
                   /\ tasks'[k].name = recs[h].meta.name
                   /\ tasks'[t].pc = "await" /\ tasks'[t].wait = k
                   /\ recs'[h].promise = k
                   /\ recs'[h].exports \notin {tasks[e].val : e \in ExecutionsOf(h)} \ {-1}
                \/ /\ recs[h].promise # 0
                   /\ Len(tasks') = Len(tasks)
                   /\ \/ tasks'[t].pc = "await" /\ tasks'[t].wait = recs[h].promise
                      \/ tasks'[t].pc \in {"run", "ok"}
                           /\ tasks'[t].got = recs[h].exports]_vars

\* C16: a record's evaluated flag is true only if the record holds an
\* execution future that has settled, and it is false while the execution the
\* record holds is in flight.
C16_EvaluatedAfterSettle ==
  \A h \in DOMAIN recs :
    /\ recs[h].evaluated = "true" => recs[h].promise # 0 /\ Settled(recs[h].promise)
    /\ Pending(h) => recs[h].evaluated = "false"

\* the record object h is in the store and holds an execution future that has
\* rejected
Rejected(h) ==
  /\ h \in DOMAIN recs /\ h[2] = gen
  /\ recs[h].promise # 0
  /\ tasks[recs[h].promise].pc = "err"

\* C17: a request whose cachedRequest finds the execution future of its record
\* rejected starts no execution and is rejected with the failure of that
\* future.
C17_NoRetry ==
  [][\A t \in DOMAIN tasks :
       (tasks[t].pc = "fetched" /\ Rejected(tasks[t].rmod) /\ tasks'[t] # tasks[t])
         => /\ Len(tasks') = Len(tasks)
            /\ \/ /\ tasks'[t].pc = "await"
                  /\ tasks'[t].wait = recs[tasks[t].rmod].promise
               \/ /\ tasks'[t].pc = "err"
                  /\ tasks'[t].err = tasks[recs[tasks[t].rmod].promise].err]_vars

\* C18: once destroy() has been called no evaluator invocation begins and no
\* record, meta or url mapping is written, whatever was pending at the call.
C18_DestroyAborts ==
  [][isDestroyed
       => /\ \A k \in DOMAIN tasks' : ~Started(k)
          /\ urlToIdMap' = urlToIdMap
          /\ DOMAIN recs' = DOMAIN recs
          /\ \A h \in DOMAIN recs : recs'[h].meta = recs[h].meta]_vars

\* C19: as long as the cache has not been cleared, the two edge sets agree on
\* the records of the store: Y is in X.imports if and only if X is in
\* Y.importers.
C19_EdgesAgree ==
  gen = 0
    => \A hx, hy \in DOMAIN recs :
         hy[1] \in Range(recs[hx].imports) <=> hx[1] \in Range(recs[hy].importers)

====
